---- MODULE Spec2Model ----
(***************************************************************************)
(* Model of the OpenSubtitles client of python-osdbinfos                   *)
(* (src/src/osdbinfos/osdbinfos.py, class OpenSutitles): the file hash,    *)
(* the session/token life cycle with its state file, the CheckMovieHash    *)
(* reply parser and the two remote operations.                             *)
(*                                                                         *)
(* Python values are represented as follows.                               *)
(*   None                 the string "None" (tokens, hashes, paths and     *)
(*                        pass-through fields are strings)                 *)
(*   a dict               a sequence of <<key, value>> pairs with distinct *)
(*                        keys, in insertion order                         *)
(*   a str the code cuts  a sequence of one-character strings              *)
(*   a datetime           a number of minutes; None is NoTime              *)
(*   bytes                a sequence of numbers in 0 .. ByteBase-1         *)
(*                                                                         *)
(* TLC's integers are 32 bits wide, so the 64-bit word of the hash is      *)
(* scaled: a word is bytesize bytes of ByteBase values each, and the       *)
(* accumulator wraps at WordModulus = ByteBase^bytesize (2^64 in the       *)
(* source, where ByteBase is 256 and bytesize is 8).  A window is          *)
(* WindowWords words (8192 in the source).                                 *)
(***************************************************************************)
EXTENDS Integers, Sequences, FiniteSets, TLC

VARIABLES
    token,            \* self.token
    last_query_time,  \* self.last_query_time
    state_file,       \* content of <tmp>/osdbinfos.dat
    now,              \* datetime.now(), in minutes
    alive,            \* the last construction returned an object
    lastOp,           \* the operation that ran last
    args,             \* its argument
    outcome,          \* "ok" (it returned) or the name of the exception it raised
    returned,         \* the value it returned
    calls,            \* the remote calls it issued, in order
    file,             \* hash specification: a file on disk
    copy,             \* hash specification: a second file
    h_file,           \* hash specification: get_hash(file) as last returned
    h_copy            \* hash specification: get_hash(copy) as last returned

sessionVars == <<token, last_query_time, state_file, now, alive, lastOp, args,
                 outcome, returned, calls>>
hashVars == <<file, copy, h_file, h_copy>>
vars == <<token, last_query_time, state_file, now, alive, lastOp, args,
          outcome, returned, calls, file, copy, h_file, h_copy>>

None == "None"

\* no get_hash call has returned yet
Unhashed == "unhashed"

Max(a, b) == IF a >= b THEN a ELSE b

Min(a, b) == IF a <= b THEN a ELSE b

(***************************************************************************)
(* get_hash                                                                *)
(***************************************************************************)

\* number of values of one byte (256 in the source)
ByteBase == 2

\* struct.calcsize(b'q'): bytes in one long long (8 in the source)
bytesize == 4

\* range(int(65536 / bytesize)): words in one window (8192 in the source)
WindowWords == 1

\* the 65536 of the source: bytes in one window
WindowBytes == WindowWords * bytesize

\* 0xFFFFFFFFFFFFFFFF + 1 in the source
WordModulus == ByteBase ^ bytesize

\* file sizes go up to two windows plus MaxExtra bytes
MaxExtra == 1

MaxFileSize == Min(2 * WindowBytes + MaxExtra, WordModulus - 1)

\* the second file differs from the first in at most MaxPatches bytes
MaxPatches == 1

Bytes == 0 .. (ByteBase - 1)

\* value of a buffer read as an unsigned number, least significant byte first
RECURSIVE LittleEndian(_)
LittleEndian(buffer) ==
    IF buffer = <<>> THEN 0
    ELSE Head(buffer) + ByteBase * LittleEndian(Tail(buffer))

\* struct.unpack(b'q', buffer): the buffer as a signed word
unpack(buffer) ==
    LET u == LittleEndian(buffer)
    IN  IF 2 * u >= WordModulus THEN u - WordModulus ELSE u

NoMask(hash) == hash

\* hash & 0xFFFFFFFFFFFFFFFF
Mask(hash) == hash % WordModulus

HexDigit(d) ==
    <<"0", "1", "2", "3", "4", "5", "6", "7",
      "8", "9", "a", "b", "c", "d", "e", "f">>[d + 1]

RECURSIVE HexDigits(_)
HexDigits(n) ==
    IF n < 16 THEN HexDigit(n) ELSE HexDigits(n \div 16) \o HexDigit(n % 16)

RECURSIVE ZeroPad(_, _)
ZeroPad(s, width) == IF Len(s) >= width THEN s ELSE ZeroPad("0" \o s, width)

\* "%016x" % hash
Format016x(hash) ==
    IF hash < 0 THEN ZeroPad("-" \o HexDigits(-hash), 16)
    ELSE ZeroPad(HexDigits(hash), 16)

\* one "for x in range(...)" loop of get_hash: n reads of bytesize bytes from
\* offset pos, each added to the accumulator, which is then masked; the value
\* is the sequence of the accumulator's values after each addition
RECURSIVE WindowTrace(_, _, _, _)
WindowTrace(hash, content, pos, n) ==
    IF n = 0 THEN <<>>
    ELSE LET buffer == SubSeq(content, pos + 1, pos + bytesize)
             l_value == unpack(buffer)
             next == Mask(hash + l_value)
         IN  <<next>> \o WindowTrace(next, content, pos + bytesize, n - 1)

\* the accumulator when the loop ends
ReadWindow(hash, content, pos, n) ==
    LET trace == <<hash>> \o WindowTrace(hash, content, pos, n)
    IN  trace[Len(trace)]

\* a file of the file system: f.readable is FALSE when open() raises IOError
File(readable, content) == [readable |-> readable, content |-> content]

\* get_hash(path), on the file the path names
get_hash(f) ==
    IF ~f.readable THEN None
    ELSE LET filesize == Len(f.content)
         IN  IF filesize < WindowBytes * 2 THEN None
             ELSE LET head == ReadWindow(filesize, f.content, 0, WindowWords)
                      tail == ReadWindow(head, f.content,
                                         Max(0, filesize - WindowBytes),
                                         WindowWords)
                  IN  Format016x(tail)

\* every value the accumulator takes after an addition in get_hash
HashTrace(f) ==
    LET filesize == Len(f.content)
        head == WindowTrace(filesize, f.content, 0, WindowWords)
        tail == WindowTrace(ReadWindow(filesize, f.content, 0, WindowWords),
                            f.content, Max(0, filesize - WindowBytes),
                            WindowWords)
    IN  head \o tail

(***************************************************************************)
(* Python dicts: sequences of <<key, value>> pairs, keys distinct          *)
(***************************************************************************)

EmptyDict == <<>>

DictKeys(d) == [i \in 1 .. Len(d) |-> d[i][1]]

DictHas(d, k) == \E i \in 1 .. Len(d) : d[i][1] = k

\* d.get(k, default)
DictGet(d, k, default) ==
    IF DictHas(d, k)
    THEN d[CHOOSE i \in 1 .. Len(d) : d[i][1] = k][2]
    ELSE default

\* d[k] = v: an existing key keeps its place, a new one goes last
DictSet(d, k, v) ==
    IF DictHas(d, k)
    THEN [i \in 1 .. Len(d) |-> IF d[i][1] = k THEN <<k, v>> ELSE d[i]]
    ELSE Append(d, <<k, v>>)

\* {pairs[i][1]: pairs[i][2] for i in ...}: a dict comprehension
RECURSIVE DictOf(_)
DictOf(pairs) ==
    IF pairs = <<>> THEN EmptyDict
    ELSE LET n == Len(pairs)
         IN  DictSet(DictOf(SubSeq(pairs, 1, n - 1)), pairs[n][1], pairs[n][2])

KeySet(d) == {d[i][1] : i \in 1 .. Len(d)}

(***************************************************************************)
(* Session state and the state file                                        *)
(***************************************************************************)

\* TOKEN_EXPIRATION = timedelta(minutes=14)
TOKEN_EXPIRATION == 14

\* self.last_query_time = None
NoTime == -1

\* the clock stops at MaxTime
MaxTime == 28

\* the state file does not exist
NoFile ==
    [shape |-> "absent", has_time |-> FALSE, time_kind |-> "none",
     time |-> NoTime, has_token |-> FALSE, token |-> None]

\* json.dumps({'last_query_time': ..timestamp(), 'token': ..}): the text
\* store_state writes.  The timestamp of a datetime is its number of minutes.
Serialized(time, tok) ==
    [shape |-> "object", has_time |-> TRUE, time_kind |-> "number",
     time |-> time, has_token |-> TRUE, token |-> tok]

\* what the state file can hold when the program starts: nothing, text that
\* is not JSON ("garbage"), JSON that is no object ("nonobject": [] or 3), or
\* a JSON object with or without each key, whose time is a number, null or a
\* string
SlotContents ==
    {NoFile,
     [NoFile EXCEPT !.shape = "garbage"],
     [NoFile EXCEPT !.shape = "nonobject"]}
    \cup
    {[shape |-> "object", has_time |-> ht,
      time_kind |-> IF ht THEN tk ELSE "none",
      time |-> IF ht /\ tk = "number" THEN 0 ELSE NoTime,
      has_token |-> hk, token |-> IF hk THEN tok ELSE None] :
        ht \in BOOLEAN, tk \in {"number", "null", "string"},
        hk \in BOOLEAN, tok \in {"T0", None}}

\* a client: the fields of self that change
Self(tok, time) == [token |-> tok, last_query_time |-> time]

\* store_state: the new content of the state file
store_state(self) == Serialized(self.last_query_time, self.token)

\* load_state, on a state file holding f: the fields it leaves and the
\* exception it lets through ("none": it returned)
load_state(self, f) ==
    CASE f.shape = "absent" -> [self |-> self, raised |-> "none"]
      [] f.shape = "garbage" -> [self |-> self, raised |-> "none"]
      [] f.shape = "nonobject" -> [self |-> self, raised |-> "TypeError"]
      [] OTHER ->
           IF ~f.has_time THEN [self |-> self, raised |-> "KeyError"]
           ELSE IF f.time_kind # "number"
           THEN [self |-> self, raised |-> "TypeError"]
           ELSE LET timed == [self EXCEPT !.last_query_time = f.time]
                IN  IF ~f.has_token
                    THEN [self |-> timed, raised |-> "KeyError"]
                    ELSE [self |-> [timed EXCEPT !.token = f.token],
                          raised |-> "none"]

\* __init__: the fields of the new object and the exception raised
init(f) == load_state(Self(None, NoTime), f)

\* is_token_expired, at time t
is_token_expired(self, t) ==
    IF self.token = None THEN TRUE
    ELSE IF self.last_query_time = NoTime THEN TRUE
    ELSE IF self.last_query_time + TOKEN_EXPIRATION <= t THEN TRUE
    ELSE FALSE

(***************************************************************************)
(* The remote service                                                      *)
(***************************************************************************)

\* how a remote call ends: it returns, or the transport raises
Transports ==
    {"ok", "socket.timeout", "ProtocolError503", "ProtocolError",
     "socket.error", "Exception"}

\* LogIn's answers: a result with a token, a result without, or a failure
LoginReplies ==
    {[transport |-> "ok", token |-> "T1"],
     [transport |-> "ok", token |-> None]}
    \cup {[transport |-> t, token |-> None] : t \in Transports \ {"ok"}}

NoReply == [transport |-> "none", token |-> None]

\* a remote call as the operation issued it: the method, the hashes or
\* records sent, and what came back (how the transport ended, LogIn's token,
\* the reply of the other two methods)
Call(method, sent, transport, tok, res) ==
    [method |-> method, sent |-> sent, transport |-> transport,
     token |-> tok, res |-> res]

NoRes == [status |-> [code |-> "", text |-> ""],
          data |-> [shape |-> "other", items |-> <<>>]]

LogIn(login) == Call("LogIn", <<>>, login.transport, login.token, NoRes)

\* register, at time t, with LogIn answering login
register(self, t, login) ==
    IF is_token_expired(self, t)
    THEN IF login.transport = "ok"
         THEN [self |-> IF login.token # None
                        THEN [self EXCEPT !.token = login.token]
                        ELSE self,
               raised |-> "none", calls |-> <<LogIn(login)>>]
         ELSE [self |-> self,
               raised |-> IF login.transport = "socket.timeout"
                          THEN "OpenSutitlesTimeoutError"
                          ELSE login.transport,
               calls |-> <<LogIn(login)>>]
    ELSE [self |-> self, raised |-> "none", calls |-> <<>>]

(***************************************************************************)
(* Strings the code takes apart: sequences of one-character strings        *)
(***************************************************************************)

StartsWith(s, prefix) ==
    /\ Len(s) >= Len(prefix)
    /\ SubSeq(s, 1, Len(prefix)) = prefix

\* s.rjust(width, fill)
RECURSIVE RJust(_, _, _)
RJust(s, width, fill) ==
    IF Len(s) >= width THEN s ELSE RJust(<<fill>> \o s, width, fill)

\* s.strip()
RECURSIVE Strip(_)
Strip(s) ==
    IF s = <<>> THEN s
    ELSE IF Head(s) = " " THEN Strip(Tail(s))
    ELSE IF s[Len(s)] = " " THEN Strip(SubSeq(s, 1, Len(s) - 1))
    ELSE s

\* s.split(sep), sep one character: always at least one part
RECURSIVE Split(_, _)
Split(s, sep) ==
    IF s = <<>> THEN <<(<<>>)>>
    ELSE LET rest == Split(Tail(s), sep)
         IN  IF Head(s) = sep THEN <<(<<>>)>> \o rest
             ELSE <<(<<Head(s)>> \o Head(rest))>> \o Tail(rest)

Digits == <<"0", "1", "2", "3", "4", "5", "6", "7", "8", "9">>

IsDigit(c) == \E d \in 1 .. 10 : Digits[d] = c

DigitValue(c) == (CHOOSE d \in 1 .. 10 : Digits[d] = c) - 1

RECURSIVE Decimal(_)
Decimal(s) ==
    IF s = <<>> THEN 0
    ELSE 10 * Decimal(SubSeq(s, 1, Len(s) - 1)) + DigitValue(s[Len(s)])

\* int(s) for a str s: blanks around, an optional sign, then digits; anything
\* else raises ValueError
int(s) ==
    LET t == Strip(s)
        signed == t # <<>> /\ Head(t) \in {"+", "-"}
        digits == IF signed THEN Tail(t) ELSE t
    IN  IF digits # <<>> /\ \A j \in 1 .. Len(digits) : IsDigit(digits[j])
        THEN [raised |-> "none",
              value |-> IF signed /\ Head(t) = "-" THEN 0 - Decimal(digits)
                        ELSE Decimal(digits)]
        ELSE [raised |-> "ValueError", value |-> 0]

\* clean_imdbid
clean_imdbid(imdbid) ==
    IF ~StartsWith(imdbid, <<"t", "t">>)
    THEN <<"t", "t">> \o RJust(imdbid, 7, "0")
    ELSE imdbid

(***************************************************************************)
(* _parse_dict                                                             *)
(*                                                                         *)
(* An entry of the reply is [type, fields]: type "dict" with its fields (a *)
(* function from the field names present to their values), "list" for the  *)
(* empty list the service sends for an unknown hash, "str" for anything    *)
(* else.  MovieImdbID, MovieName, SeriesSeason and SeriesEpisode are       *)
(* strings the code takes apart; the other fields pass through.            *)
(***************************************************************************)

Entry(type, fields) == [type |-> type, fields |-> fields]

\* datas.get(name, None) on an entry's fields
FieldGet(fields, name) == IF name \in DOMAIN fields THEN fields[name] ELSE None

\* result[name] = value
Put(result, name, value) == (name :> value) @@ result

\* a season or episode number of a record: None, the str received, or an int
NumberNone == [t |-> "None", str |-> <<>>, n |-> 0]

NumberStr(s) == [t |-> "str", str |-> s, n |-> 0]

NumberInt(n) == [t |-> "int", str |-> <<>>, n |-> n]

\* result[key] = datas.get(field, None), then
\* try: result[key] = int(result[key]) except (TypeError, ValueError): log
number_field(fields, field) ==
    LET Parsed(parsed) ==
            IF parsed.raised = "none" THEN NumberInt(parsed.value)
            ELSE NumberStr(fields[field])
    IN  IF field \notin DOMAIN fields THEN NumberNone
        ELSE Parsed(int(fields[field]))

\* the titles of an episode: serie_title is set before episode_title is
\* looked up, and IndexError ends the try block
episode_titles(result, title) ==
    LET Titles(parts) ==
            IF Len(parts) < 2 THEN result
            ELSE IF Len(parts) < 3
            THEN Put(result, "serie_title", Strip(parts[2]))
            ELSE Put(Put(result, "serie_title", Strip(parts[2])),
                     "episode_title", Strip(parts[3]))
    IN  Titles(Split(title, "\""))

\* the body of the loop for a non-empty entry: the record, or the exception.
\* movie_name is <<the name>>, or <<>> for None.
parse_entry(fields) ==
    LET Numbers(r) ==
            Put(Put(r, "season_number", number_field(fields, "SeriesSeason")),
                "episode_number", number_field(fields, "SeriesEpisode"))
        Kind(r, kind) ==
            IF kind = "movie"
            THEN [raised |-> "none",
                  result |-> Put(Put(r, "movie_name",
                                     IF "MovieName" \in DOMAIN fields
                                     THEN <<fields["MovieName"]>> ELSE <<>>),
                                 "movie_year", FieldGet(fields, "MovieYear"))]
            ELSE IF kind = "episode"
            THEN IF "MovieName" \notin DOMAIN fields
                 THEN [raised |-> "KeyError", result |-> r]
                 ELSE [raised |-> "none",
                       result |-> Numbers(episode_titles(r, fields["MovieName"]))]
            ELSE [raised |-> "none", result |-> r]
        Imdb(r) ==
            IF "MovieImdbID" \in DOMAIN fields
            THEN Put(r, "imdb_id", clean_imdbid(fields["MovieImdbID"]))
            ELSE r
        Hash == Put(<<>>, "movie_hash", FieldGet(fields, "MovieHash"))
    IN  Kind(Put(Imdb(Hash), "kind", FieldGet(fields, "MovieKind")),
             FieldGet(fields, "MovieKind"))

\* datas[_hash] when datas is bound to an entry, not to the reply
index_entry(entry, _hash) ==
    IF entry.type = "list" THEN "TypeError"
    ELSE IF entry.type = "dict" /\ _hash \notin DOMAIN entry.fields
    THEN "KeyError"
    ELSE "AttributeError"

\* "for _hash in datas:" from the i-th key on.  The loop rebinds the name
\* datas to the entry it reads ("datas = datas[_hash]"): first is TRUE while
\* datas is still the reply, and bound is the entry it names afterwards.
RECURSIVE parse_loop(_, _, _, _, _)
parse_loop(datas, i, first, bound, ret) ==
    LET Parsed(entry, p) ==
            IF p.raised # "none" THEN [raised |-> p.raised, ret |-> ret]
            ELSE parse_loop(datas, i + 1, FALSE, entry, Append(ret, p.result))
        Read(_hash, entry) ==
            IF entry.type = "list" \/ DOMAIN entry.fields = {}
            THEN parse_loop(datas, i + 1, FALSE, entry,
                            Append(ret, Put(<<>>, "movie_hash", _hash)))
            ELSE Parsed(entry, parse_entry(entry.fields))
    IN  IF i > Len(datas) THEN [raised |-> "none", ret |-> ret]
        ELSE IF ~first
        THEN [raised |-> index_entry(bound, datas[i][1]), ret |-> ret]
        ELSE Read(datas[i][1], datas[i][2])

\* values an operation returns
RetNone == [kind |-> "None", value |-> <<>>]

RetDict(d) == [kind |-> "dict", value |-> d]

RetException(name) == [kind |-> "exception", value |-> <<name>>]

RetData == [kind |-> "data", value |-> <<>>]

\* _parse_dict, with the state file holding f
_parse_dict(self, f, datas) ==
    LET Flat(results) ==
            DictOf([k \in 1 .. Len(results) |->
                      <<results[k]["movie_hash"], results[k]>>])
        Looped(loop) ==
            IF loop.raised # "none"
            THEN [raised |-> loop.raised, ret |-> RetNone, state_file |-> f]
            ELSE [raised |-> "none", ret |-> RetDict(Flat(loop.ret)),
                  state_file |-> store_state(self)]
    IN  Looped(parse_loop(datas, 1, TRUE, Entry("dict", <<>>), <<>>))

(***************************************************************************)
(* get_infos, get_files_infos, insert_movie_hash                           *)
(***************************************************************************)

\* a status line "<code> <text>"; the empty line is Status("", "")
Status(code, text) == [code |-> code, text |-> text]

STATUS_OK == Status("200", "OK")

\* res['status'].split(" ")[0]
status_code(status) == status.code

ErrorCodes == {"401", "405", "406", "407", "408", "409", "410", "411", "415"}

ERROR_STATUS_EXCEPTIONS(code) ==
    CASE code = "401" -> "UnauthorizedOpenSutitlesError"
      [] code = "405" -> "MandatoryParameterMissing"
      [] code = "406" -> "NoSessionOpenSubtitlesError"
      [] code = "407" -> "DownloadLimitReachedOpenSutitleError"
      [] code = "408" -> "InvalidParametersOpenSutitlesError"
      [] code = "409" -> "MethodNotFoundOpenSutitlesError"
      [] code = "410" -> "UnknownOpenSubtitlesError"
      [] code = "411" -> "InvalidUserAgentOpenSubtitlesError"
      [] code = "415" -> "DisabledUserAgentOpenSubtitlesError"

\* the exception get_infos raises for a status other than STATUS_OK
status_error(status) ==
    IF status # Status("", "")
    THEN IF status_code(status) \in ErrorCodes
         THEN ERROR_STATUS_EXCEPTIONS(status_code(status))
         ELSE "OpenSutitlesError"
    ELSE "UnboundLocalError"

\* the except clauses of get_infos, on what its try block raised
lookup_error(raised) ==
    CASE raised \in {"socket.timeout", "OpenSutitlesTimeoutError"} ->
           "OpenSutitlesTimeoutError"
      [] raised = "ProtocolError503" -> "OpenSutitlesServiceUnavailable"
      [] raised = "ProtocolError" -> "OpenSutitlesError"
      [] raised = "socket.error" -> "OpenSutitlesNetworkError"
      [] OTHER -> "OpenSutitlesError"

\* the except clauses of insert_movie_hash
insert_error(raised) ==
    CASE raised \in {"socket.timeout", "OpenSutitlesTimeoutError"} ->
           "OpenSutitlesTimeoutError"
      [] raised = "ProtocolError503" -> "OpenSutitlesServiceUnavailable"
      [] OTHER -> "OpenSutitlesError"

\* the try block of both operations: register, note the time, call method
\* with the token and sent
remote_call(self, t, method, sent, login, reply) ==
    LET Registered(reg) ==
            IF reg.raised # "none"
            THEN [self |-> reg.self, raised |-> reg.raised, calls |-> reg.calls]
            ELSE [self |-> [reg.self EXCEPT !.last_query_time = t],
                  raised |-> IF reply.transport = "ok" THEN "none"
                             ELSE reply.transport,
                  calls |-> Append(reg.calls,
                                   Call(method, sent, reply.transport, None,
                                        reply.res))]
    IN  Registered(register(self, t, login))

NoFilter(movie_hash) == movie_hash

\* list(filter(lambda x: x is not None, movie_hash))
FilterNone(movie_hash) == SelectSeq(movie_hash, LAMBDA x : x # None)

\* {x['MovieHash']: x for x in datas if isinstance(x, dict)}
rekey(datas) ==
    LET Keyed(dicts) ==
            IF \E k \in 1 .. Len(dicts) : "MovieHash" \notin DOMAIN dicts[k].fields
            THEN [raised |-> "KeyError", datas |-> <<>>]
            ELSE [raised |-> "none",
                  datas |-> DictOf([k \in 1 .. Len(dicts) |->
                                      <<dicts[k].fields["MovieHash"], dicts[k]>>])]
    IN  Keyed(SelectSeq(datas, LAMBDA x : x.type = "dict"))

\* get_infos from "if res['status'] == self.STATUS_OK" on, for a reply whose
\* status is STATUS_OK
decode_data(self, f, data) ==
    LET Rekeyed(keyed) ==
            IF keyed.raised # "none"
            THEN [raised |-> keyed.raised, ret |-> RetNone, state_file |-> f]
            ELSE _parse_dict(self, f, keyed.datas)
    IN  IF data.shape = "dict" THEN _parse_dict(self, f, data.items)
        ELSE IF data.shape = "list" THEN Rekeyed(rekey(data.items))
        ELSE [raised |-> "none",
              ret |-> RetException("InvalidResultOpenSutitlesError"),
              state_file |-> f]

decode_reply_storing(self, f, res) ==
    IF res.status = STATUS_OK THEN decode_data(self, f, res.data)
    ELSE [raised |-> status_error(res.status), ret |-> RetNone,
          state_file |-> store_state(self)]

\* get_infos from "if res['status'] == self.STATUS_OK" on
decode_reply(self, f, res) ==
    IF res.status = STATUS_OK THEN decode_data(self, f, res.data)
    ELSE [raised |-> status_error(res.status), ret |-> RetNone,
          state_file |-> f]

\* get_infos(*movie_hash) at time t, the state file holding f, LogIn
\* answering login and CheckMovieHash answering reply
get_infos(self, f, t, movie_hash, login, reply) ==
    LET nothing == [self |-> self, raised |-> "none", ret |-> RetDict(EmptyDict),
                    state_file |-> f, calls |-> <<>>]
        Decoded(call, d) ==
            [self |-> call.self, raised |-> d.raised, ret |-> d.ret,
             state_file |-> d.state_file, calls |-> call.calls]
        Called(call) ==
            IF call.raised # "none"
            THEN [self |-> call.self, raised |-> lookup_error(call.raised),
                  ret |-> RetNone, state_file |-> f, calls |-> call.calls]
            ELSE Decoded(call, decode_reply(call.self, f, reply.res))
    IN  IF Len(movie_hash) = 0 THEN nothing
        ELSE IF Len(FilterNone(movie_hash)) = 0 THEN nothing
        ELSE Called(remote_call(self, t, "CheckMovieHash",
                                FilterNone(movie_hash), login, reply))

\* {self.get_hash(path): path for path in files}, fs the file system
hashs_files(fs, files) ==
    DictOf([k \in 1 .. Len(files) |-> <<get_hash(fs[files[k]]), files[k]>>])

\* get_files_infos(files)
get_files_infos(self, f, t, fs, files, login, reply) ==
    LET Paired(_hashs_files, _hashs_infos) ==
            RetDict(DictOf([k \in 1 .. Len(_hashs_infos) |->
                              <<DictGet(_hashs_files, _hashs_infos[k][1], None),
                                _hashs_infos[k][2]>>]))
        Looked(_hashs_files, infos) ==
            IF infos.raised # "none" THEN infos
            ELSE IF infos.ret.kind = "exception"
            THEN [infos EXCEPT !.raised = "TypeError", !.ret = RetNone]
            ELSE [infos EXCEPT !.ret = Paired(_hashs_files, infos.ret.value)]
        Hashed(_hashs_files) ==
            Looked(_hashs_files,
                   get_infos(self, f, t, DictKeys(_hashs_files), login, reply))
    IN  Hashed(hashs_files(fs, files))

\* '408' in res['status']: no status text of the model holds "408"
contains_408(status) == status.code = "408"

\* insert_movie_hash(hashes): every element of hashes is [has_imdbid, imdbid]
insert_movie_hash(self, f, t, hashes, login, reply) ==
    LET Called(call) ==
            IF call.raised # "none"
            THEN [self |-> call.self, raised |-> insert_error(call.raised),
                  ret |-> RetNone, state_file |-> f, calls |-> call.calls]
            ELSE IF contains_408(reply.res.status)
            THEN [self |-> call.self, raised |-> "OpenSutitlesInvalidParam",
                  ret |-> RetNone, state_file |-> f, calls |-> call.calls]
            ELSE [self |-> call.self, raised |-> "none",
                  ret |-> IF reply.res.status = STATUS_OK THEN RetData
                          ELSE RetNone,
                  state_file |-> f, calls |-> call.calls]
    IN  IF \E k \in 1 .. Len(hashes) : ~hashes[k].has_imdbid
        THEN [self |-> self, raised |-> "OpenSutitlesInvalidParam",
              ret |-> RetNone, state_file |-> f, calls |-> <<>>]
        ELSE Called(remote_call(self, t, "InsertMovieHash", hashes, login,
                                reply))

(***************************************************************************)
(* The environment: the file system, the inputs and the service's replies  *)
(***************************************************************************)

Paths == {"a.avi", "b.avi", "c.avi", "s.txt", "t.txt", "gone"}

\* a.avi and b.avi differ in their middle byte only; s.txt and t.txt are
\* smaller than two windows; gone cannot be opened
fs ==
    [p \in Paths |->
       CASE p = "a.avi" -> File(TRUE, <<1, 0, 1, 0, 0, 1, 1, 0, 1>>)
         [] p = "b.avi" -> File(TRUE, <<1, 0, 1, 0, 1, 1, 1, 0, 1>>)
         [] p = "c.avi" -> File(TRUE, <<0, 1, 1, 1, 1, 0, 0, 1>>)
         [] p = "s.txt" -> File(TRUE, <<1, 0, 1>>)
         [] p = "t.txt" -> File(TRUE, <<>>)
         [] OTHER -> File(FALSE, <<>>)]

\* the hashes the service is asked about and answers about
H1 == get_hash(fs["a.avi"])

H2 == get_hash(fs["c.avi"])

Fingerprints == <<H1, H2>>

\* the arguments of get_infos
HashLists ==
    {<<>>, <<None>>, <<None, None>>, <<H1>>, <<H1, None>>, <<H1, H2>>}

\* the arguments of get_files_infos
FileLists ==
    {<<>>, <<"a.avi">>, <<"s.txt">>, <<"gone">>, <<"a.avi", "s.txt">>,
     <<"s.txt", "a.avi", "t.txt">>, <<"a.avi", "b.avi">>, <<"a.avi", "c.avi">>}

\* the arguments of insert_movie_hash
RecordLists ==
    {<<>>, <<[has_imdbid |-> TRUE, imdbid |-> <<"t", "t", "1", "2">>]>>,
     <<[has_imdbid |-> TRUE, imdbid |-> <<"1", "2">>],
       [has_imdbid |-> FALSE, imdbid |-> <<>>]>>}

\* the entries the service sends for hash h: an empty dict, an empty list, a
\* movie, a movie without its hash, an episode, an episode whose title has
\* one quote and whose season is no number, and a str
Entries(h) ==
    << Entry("dict", <<>>),
       Entry("list", <<>>),
       Entry("dict", [MovieHash |-> h, MovieKind |-> "movie",
                      MovieImdbID |-> <<"5", "6", "7", "8">>,
                      MovieName |-> <<"A">>, MovieYear |-> "1999"]),
       Entry("dict", [MovieKind |-> "movie"]),
       Entry("dict", [MovieHash |-> h, MovieKind |-> "episode",
                      MovieName |-> <<"\"", "S", "\"", " ", "E">>,
                      SeriesSeason |-> <<"1">>,
                      SeriesEpisode |-> <<"1", "2">>]),
       Entry("dict", [MovieHash |-> h, MovieKind |-> "episode",
                      MovieName |-> <<"S", "\"", "E">>,
                      SeriesSeason |-> <<"x">>]),
       Entry("str", <<>>) >>

EntryFor(h, n) == Entries(h)[n]

\* the entries of a mapping are the first NEntries - 1, all but the str
NEntries == Len(Entries(None))

\* the data section is a mapping or a list of at most MaxEntries entries
MaxEntries == 2

\* a data section, by numbers: its shape, and per entry the number of its
\* hash and the number of its entry; a mapping's hashes are distinct, and its
\* entries after the first are an empty one or a movie
DataChoices ==
    {[shape |-> "other", picks |-> <<>>]}
    \cup
    {[shape |-> "dict", picks |-> d] :
        d \in {x \in UNION {[1 .. n -> (1 .. Len(Fingerprints)) \X (1 .. (NEntries - 1))] :
                             n \in 0 .. Min(MaxEntries, Len(Fingerprints))} :
                 /\ \A a, b \in DOMAIN x : a # b => x[a][1] # x[b][1]
                 /\ \A a \in DOMAIN x : a > 1 => x[a][2] \in {1, 3}}}
    \cup
    {[shape |-> "list", picks |-> d] :
        d \in UNION {[1 .. n -> {1} \X {2, 3, 4, NEntries}] :
                       n \in 0 .. MaxEntries}}

\* the data section a choice stands for: a mapping as a dict, a list as the
\* sequence of its items
Data(choice) ==
    [shape |-> choice.shape,
     items |-> [k \in 1 .. Len(choice.picks) |->
                  LET h == Fingerprints[choice.picks[k][1]]
                      e == EntryFor(h, choice.picks[k][2])
                  IN  IF choice.shape = "dict" THEN <<h, e>> ELSE e]]

NoData == [shape |-> "other", items |-> <<>>]

Statuses ==
    {Status(c, "error") : c \in ErrorCodes}
    \cup {Status("200", "Partial"), Status("500", "error"), Status("", "")}

\* the answers of CheckMovieHash and of InsertMovieHash, by numbers
ReplyChoices ==
    {[transport |-> t, status |-> STATUS_OK,
      data |-> [shape |-> "other", picks |-> <<>>]] : t \in Transports \ {"ok"}}
    \cup
    {[transport |-> "ok", status |-> st,
      data |-> [shape |-> "other", picks |-> <<>>]] : st \in Statuses}
    \cup
    {[transport |-> "ok", status |-> STATUS_OK, data |-> d] : d \in DataChoices}

Reply(choice) ==
    [transport |-> choice.transport,
     res |-> [status |-> choice.status, data |-> Data(choice.data)]]

NoReplyChoice ==
    [transport |-> "none", status |-> STATUS_OK,
     data |-> [shape |-> "other", picks |-> <<>>]]

\* the answers LogIn can give: it is called only when the operation has
\* something to ask (asked) and the client's token is expired
LoginChoices(self, t, asked) ==
    IF asked /\ is_token_expired(self, t) THEN LoginReplies ELSE {NoReply}

\* the answers the operation's own call can give, after login: there is no
\* call when there is nothing to ask or when LogIn failed
AnswerChoices(login, asked) ==
    IF asked /\ login.transport \in {"ok", "none"} THEN ReplyChoices
    ELSE {NoReplyChoice}

\* the hashes of the files of a list
FileHashes(files) == [k \in 1 .. Len(files) |-> get_hash(fs[files[k]])]

\* every record of the list has an imdbid
AllHaveId(hashes) == \A k \in 1 .. Len(hashes) : hashes[k].has_imdbid

\* some element of the list is a hash
AnyHash(hashes) == \E k \in 1 .. Len(hashes) : hashes[k] # None

(***************************************************************************)
(* The client as a state machine                                           *)
(***************************************************************************)

client == Self(token, last_query_time)

HashIdle ==
    /\ file = File(FALSE, <<>>)
    /\ copy = File(FALSE, <<>>)
    /\ h_file = Unhashed
    /\ h_copy = Unhashed

\* there is a client, and the caller holds no result of an earlier call
Callable == alive /\ lastOp \in {"__init__", "tick", "idle"}

\* what an operation leaves behind
Done(op, arg, r) ==
    /\ token' = r.self.token
    /\ last_query_time' = r.self.last_query_time
    /\ state_file' = r.state_file
    /\ lastOp' = op
    /\ args' = arg
    /\ outcome' = IF r.raised = "none" THEN "ok" ELSE r.raised
    /\ returned' = r.ret
    /\ calls' = r.calls
    /\ UNCHANGED <<now, alive, hashVars>>

\* OpenSutitles(): a process starts and builds its client.  When __init__
\* raises there is no client.
Init ==
    /\ state_file \in SlotContents
    /\ now = 0
    /\ LET r == init(state_file)
       IN  /\ alive = (r.raised = "none")
           /\ token = IF r.raised = "none" THEN r.self.token ELSE None
           /\ last_query_time =
                IF r.raised = "none" THEN r.self.last_query_time ELSE NoTime
           /\ outcome = IF r.raised = "none" THEN "ok" ELSE r.raised
    /\ lastOp = "__init__"
    /\ args = <<>>
    /\ returned = RetNone
    /\ calls = <<>>
    /\ HashIdle

\* the process ends and another one starts
Restart ==
    /\ LET r == init(state_file)
       IN  /\ alive' = (r.raised = "none")
           /\ token' = IF r.raised = "none" THEN r.self.token ELSE None
           /\ last_query_time' =
                IF r.raised = "none" THEN r.self.last_query_time ELSE NoTime
           /\ outcome' = IF r.raised = "none" THEN "ok" ELSE r.raised
    /\ lastOp' = "__init__"
    /\ args' = <<>>
    /\ returned' = RetNone
    /\ calls' = <<>>
    /\ UNCHANGED <<state_file, now, hashVars>>

Register ==
    /\ Callable
    /\ \E login \in LoginChoices(client, now, TRUE) :
         LET r == register(client, now, login)
         IN  Done("register", <<>>,
                  [self |-> r.self, raised |-> r.raised, ret |-> RetNone,
                   state_file |-> state_file, calls |-> r.calls])

GetInfos ==
    /\ Callable
    /\ \E movie_hash \in HashLists :
       \E login \in LoginChoices(client, now, AnyHash(movie_hash)) :
       \E reply \in AnswerChoices(login, AnyHash(movie_hash)) :
         Done("get_infos", movie_hash,
              get_infos(client, state_file, now, movie_hash, login, Reply(reply)))

GetFilesInfos ==
    /\ Callable
    /\ \E files \in FileLists :
       \E login \in LoginChoices(client, now, AnyHash(FileHashes(files))) :
       \E reply \in AnswerChoices(login, AnyHash(FileHashes(files))) :
         Done("get_files_infos", files,
              get_files_infos(client, state_file, now, fs, files, login,
                              Reply(reply)))

InsertMovieHash ==
    /\ Callable
    /\ \E hashes \in RecordLists :
       \E login \in LoginChoices(client, now, AllHaveId(hashes)) :
       \E reply \in AnswerChoices(login, AllHaveId(hashes)) :
         Done("insert_movie_hash", hashes,
              insert_movie_hash(client, state_file, now, hashes, login,
                                Reply(reply)))

\* the caller has taken what the operation returned or raised
Return ==
    /\ lastOp \in {"register", "get_infos", "get_files_infos", "insert_movie_hash"}
    /\ lastOp' = "idle"
    /\ args' = <<>>
    /\ outcome' = "ok"
    /\ returned' = RetNone
    /\ calls' = <<>>
    /\ UNCHANGED <<token, last_query_time, state_file, now, alive, hashVars>>

\* time passes
Tick ==
    /\ \E d \in {TOKEN_EXPIRATION - 1, TOKEN_EXPIRATION} :
         /\ now + d <= MaxTime
         /\ now' = now + d
    /\ lastOp' = "tick"
    /\ args' = <<>>
    /\ outcome' = "ok"
    /\ returned' = RetNone
    /\ calls' = <<>>
    /\ UNCHANGED <<token, last_query_time, state_file, alive, hashVars>>

Next ==
    \/ Restart
    \/ Register
    \/ GetInfos
    \/ GetFilesInfos
    \/ InsertMovieHash
    \/ Return
    \/ Tick

Spec == Init /\ [][Next]_vars

(***************************************************************************)
(* Specification of the hash: files of every size and content are hashed,  *)
(* copied and patched.                                                     *)
(***************************************************************************)

Contents == UNION {[1 .. n -> Bytes] : n \in 0 .. MaxFileSize}

Files == {File(TRUE, c) : c \in Contents} \cup {File(FALSE, <<>>)}

\* number of positions at which two contents of one length differ
Distance(c, d) == Cardinality({i \in 1 .. Len(c) : c[i] # d[i]})

SessionIdle ==
    /\ token = None
    /\ last_query_time = NoTime
    /\ state_file = <<>>
    /\ now = 0
    /\ alive = FALSE
    /\ lastOp = "none"
    /\ args = <<>>
    /\ outcome = "ok"
    /\ returned = RetNone
    /\ calls = <<>>

InitHash ==
    /\ SessionIdle
    /\ file \in Files
    /\ copy = file
    /\ h_file = Unhashed
    /\ h_copy = Unhashed

\* get_hash(path) on the first file
HashFile ==
    /\ h_file' = get_hash(file)
    /\ UNCHANGED <<sessionVars, file, copy, h_copy>>

\* get_hash(path) on the second file
HashCopy ==
    /\ h_copy' = get_hash(copy)
    /\ UNCHANGED <<sessionVars, file, copy, h_file>>

\* another program overwrites one byte of the second file
PatchCopy ==
    /\ copy.readable
    /\ \E i \in 1 .. Len(copy.content), b \in Bytes :
          /\ copy' = [copy EXCEPT !.content[i] = b]
          /\ Distance(file.content, copy'.content) <= MaxPatches
          /\ copy' # copy
    /\ h_copy' = Unhashed
    /\ UNCHANGED <<sessionVars, file, h_file>>

NextHash == HashFile \/ HashCopy \/ PatchCopy

SpecHash == InitHash /\ [][NextHash]_vars

(***************************************************************************)
(* Specification of the parser: _parse_dict is applied to a reply of one   *)
(* episode entry, for every title and every season and episode number.     *)
(***************************************************************************)

\* the longest MovieName and the longest SeriesSeason / SeriesEpisode
MaxTitleLen == 3

MaxNumberLen == 2

\* the characters of a MovieName: the quote, a letter and the blank
TitleChars == {"\"", "S", " "}

\* the characters of a SeriesSeason or SeriesEpisode: a digit, a letter, a
\* blank and the minus sign
NumberChars == {"7", "x", " ", "-"}

Titles == UNION {[1 .. n -> TitleChars] : n \in 0 .. MaxTitleLen}

NumberStrings == UNION {[1 .. n -> NumberChars] : n \in 0 .. MaxNumberLen}

\* a field of an entry that may be missing: <<>> or <<value>>
Optional(values) == {<<>>} \cup {<<v>> : v \in values}

\* the fields of an episode entry for hash h
EpisodeFields(h, name, season, episode) ==
    LET Field(key, opt) == IF opt = <<>> THEN <<>> ELSE key :> opt[1]
    IN  Field("MovieName", name) @@ Field("SeriesSeason", season)
        @@ Field("SeriesEpisode", episode)
        @@ [MovieHash |-> h, MovieKind |-> "episode"]

\* the data sections of one episode entry
EpisodeReplies ==
    {<< <<H1, Entry("dict", EpisodeFields(H1, name, season, episode))>> >> :
        name \in Optional(Titles),
        season \in Optional(NumberStrings),
        episode \in Optional(NumberStrings)}

\* CheckMovieHash has answered a logged-in client with a data section
InitParse ==
    /\ token = "T1"
    /\ last_query_time = 0
    /\ state_file = NoFile
    /\ now = 0
    /\ alive = TRUE
    /\ lastOp = "CheckMovieHash"
    /\ args \in EpisodeReplies
    /\ outcome = "ok"
    /\ returned = RetNone
    /\ calls = <<>>
    /\ HashIdle

\* self._parse_dict(res['data'])
ParseDict ==
    /\ lastOp = "CheckMovieHash"
    /\ LET Parsed(r) ==
               Done("_parse_dict", args,
                    [self |-> client, raised |-> r.raised, ret |-> r.ret,
                     state_file |-> r.state_file, calls |-> <<>>])
       IN  Parsed(_parse_dict(client, state_file, args))

NextParse == ParseDict

SpecParse == InitParse /\ [][NextParse]_vars

(***************************************************************************)
(* Properties                                                              *)
(***************************************************************************)

\* isValid(): the negation of is_token_expired
isValid == ~is_token_expired(client, now)

\* the last remote call of the operation that ran last, when it issued one
Called == calls # <<>>

LastCall == calls[Len(calls)]

\* the operation that ran last logged in, and LogIn's reply carried a token
LoggedIn ==
    /\ Called
    /\ calls[1].method = "LogIn"
    /\ calls[1].transport = "ok"
    /\ calls[1].token # None

\* the operation that ran last got an answer to its own call (not LogIn)
Answered(method) ==
    /\ Called
    /\ LastCall.method = method
    /\ LastCall.transport = "ok"

\* C1: isValid() is false right after construction with no state file, true
\* right after a successful login (register() got a LogIn reply carrying a
\* token), and false once TOKEN_EXPIRATION minutes have passed since
\* last_query_time.
C1_SessionValidity ==
    /\ (lastOp = "__init__" /\ alive /\ state_file.shape = "absent") => ~isValid
    /\ (lastOp = "register" /\ outcome = "ok" /\ LoggedIn) => isValid
    /\ (last_query_time # NoTime /\ now - last_query_time >= TOKEN_EXPIRATION)
         => ~isValid

\* C2: when a lookup answered "200 OK" with a mapping or a list, or an insert
\* answered "200 OK", has returned, the state file holds the client's token
\* and last_query_time.
C2_PersistedAfterSuccess ==
    \A method \in {"CheckMovieHash", "InsertMovieHash"} :
       ( /\ lastOp \in {"get_infos", "insert_movie_hash"}
         /\ outcome = "ok"
         /\ Answered(method)
         /\ LastCall.res.status = STATUS_OK
         /\ method = "CheckMovieHash" => LastCall.res.data.shape \in {"dict", "list"} )
       => state_file = Serialized(last_query_time, token)

\* the exceptions get_infos raises when LogIn or CheckMovieHash fails
TransportErrors ==
    {"OpenSutitlesTimeoutError", "OpenSutitlesServiceUnavailable",
     "OpenSutitlesNetworkError", "OpenSutitlesError"}

\* C3: a get_infos call that raises leaves the state file as it was; a reply
\* with status code 401 raises UnauthorizedOpenSutitlesError, and a failed
\* LogIn or CheckMovieHash call raises one of the transport errors.
C3_FailedLookupKeepsStore ==
    [][ /\ (lastOp' = "get_infos" /\ outcome' # "ok")
           => state_file' = state_file
        /\ (lastOp' = "get_infos" /\ calls' # <<>>
            /\ calls'[Len(calls')].transport = "ok"
            /\ calls'[Len(calls')].method = "CheckMovieHash"
            /\ status_code(calls'[Len(calls')].res.status) = "401")
           => (outcome' = "UnauthorizedOpenSutitlesError"
               /\ state_file' = state_file)
        /\ (lastOp' = "get_infos" /\ calls' # <<>>
            /\ calls'[Len(calls')].transport # "ok")
           => (outcome' \in TransportErrors /\ state_file' = state_file)
      ]_vars

\* C3 witness: a lookup answered 401 has raised while the state file holds an
\* earlier session than the client's.
C3_Witness ==
    /\ lastOp = "get_infos"
    /\ outcome = "UnauthorizedOpenSutitlesError"
    /\ state_file.shape = "object"
    /\ state_file # Serialized(last_query_time, token)

\* the entries of a mapping are empty or carry their own hash
WellKeyed(items) ==
    \A k \in 1 .. Len(items) :
       \/ items[k][2].type = "list"
       \/ /\ items[k][2].type = "dict"
          /\ \/ DOMAIN items[k][2].fields = {}
             \/ /\ "MovieHash" \in DOMAIN items[k][2].fields
                /\ items[k][2].fields["MovieHash"] = items[k][1]
                /\ "MovieName" \in DOMAIN items[k][2].fields

IsEmptyEntry(entry) == entry.type = "list" \/ DOMAIN entry.fields = {}

\* the service answered "200 OK" with a mapping that has an entry for every
\* hash it was sent
Covered ==
    /\ Answered("CheckMovieHash")
    /\ LastCall.res.status = STATUS_OK
    /\ LastCall.res.data.shape = "dict"
    /\ WellKeyed(LastCall.res.data.items)
    /\ \A j \in 1 .. Len(LastCall.sent) :
         LastCall.sent[j] \in KeySet(LastCall.res.data.items)

\* C4: when the service has a record for every hash it is asked about (or is
\* not asked at all), the mapping get_files_infos returns has an entry for
\* every path of its argument, and no None goes to the remote service for a
\* path whose file is too small or unreadable.
C4_EveryPathHasAnEntry ==
    (lastOp = "get_files_infos" /\ outcome = "ok" /\ (calls = <<>> \/ Covered))
    => /\ returned.kind = "dict"
       /\ \A k \in 1 .. Len(args) : DictHas(returned.value, args[k])
       /\ \A c \in 1 .. Len(calls) :
            \A j \in 1 .. Len(calls[c].sent) : calls[c].sent[j] # None

\* C5: for a "200 OK" reply whose data is a mapping of any number of hashes,
\* get_infos returns a mapping whose keys are exactly the hashes of the
\* reply, and an empty entry gives a record carrying its hash only.
C5_OneRecordPerFingerprint ==
    ( /\ lastOp = "get_infos"
      /\ Answered("CheckMovieHash")
      /\ LastCall.res.status = STATUS_OK
      /\ LastCall.res.data.shape = "dict"
      /\ WellKeyed(LastCall.res.data.items) )
    => /\ outcome = "ok"
       /\ returned.kind = "dict"
       /\ KeySet(returned.value) = KeySet(LastCall.res.data.items)
       /\ \A k \in 1 .. Len(LastCall.res.data.items) :
            IsEmptyEntry(LastCall.res.data.items[k][2])
            => DOMAIN DictGet(returned.value, LastCall.res.data.items[k][1],
                              <<>>) = {"movie_hash"}

TableError(status) ==
    IF status.code \in ErrorCodes THEN ERROR_STATUS_EXCEPTIONS(status.code)
    ELSE "OpenSutitlesError"

\* C7: a lookup or an insert whose reply has a status code other than 200
\* raises the exception of the status table, or OpenSutitlesError for a code
\* the table does not hold.
C7_StatusRaisesForBothCalls ==
    \A method \in {"CheckMovieHash", "InsertMovieHash"} :
       ( /\ lastOp \in {"get_infos", "insert_movie_hash"}
         /\ Answered(method)
         /\ LastCall.res.status.code \notin {"200", ""} )
       => outcome = TableError(LastCall.res.status)

\* C8: a "200 OK" lookup reply whose data is neither a mapping nor a list
\* makes get_infos raise InvalidResultOpenSutitlesError, and one whose data
\* is a list gives records for hashes of its dict items only.
C8_InvalidShapeRaises ==
    ( /\ lastOp = "get_infos"
      /\ Answered("CheckMovieHash")
      /\ LastCall.res.status = STATUS_OK )
    => /\ LastCall.res.data.shape = "other"
          => outcome = "InvalidResultOpenSutitlesError"
       /\ (LastCall.res.data.shape = "list" /\ outcome = "ok")
          => KeySet(returned.value) \subseteq
               {LastCall.res.data.items[k].fields["MovieHash"] :
                  k \in {j \in 1 .. Len(LastCall.res.data.items) :
                           LastCall.res.data.items[j].type = "dict"}}

\* a state file store_state could have written
WellFormed(f) ==
    f.shape = "object" /\ f.has_time /\ f.time_kind = "number" /\ f.has_token

\* C9: construction never raises, whatever the state file holds, and a state
\* file that is not well-formed leaves token and last_query_time None.
C9_LoadNeverFatal ==
    lastOp = "__init__"
    => /\ alive
       /\ outcome = "ok"
       /\ ~WellFormed(state_file)
          => (token = None /\ last_query_time = NoTime)

\* the words of a window as the claim reads them: signed, little-endian
SignedWord(buffer) ==
    LET u == LittleEndian(buffer)
    IN  IF u >= WordModulus \div 2 THEN u - WordModulus ELSE u

WindowWordsAt(content, start) ==
    [k \in 1 .. WindowWords |->
       SignedWord(SubSeq(content, start + (k - 1) * bytesize + 1,
                         start + k * bytesize))]

RECURSIVE SumSeq(_)
SumSeq(q) == IF q = <<>> THEN 0 ELSE Head(q) + SumSeq(Tail(q))

\* the size plus the words of both windows, before any reduction
RawSum(f) ==
    Len(f.content)
    + SumSeq(WindowWordsAt(f.content, 0))
    + SumSeq(WindowWordsAt(f.content, Len(f.content) - WindowBytes))

Fingerprintable(f) == f.readable /\ Len(f.content) >= 2 * WindowBytes

SameWindows(f, g) ==
    /\ Len(f.content) = Len(g.content)
    /\ SubSeq(f.content, 1, WindowBytes) = SubSeq(g.content, 1, WindowBytes)
    /\ SubSeq(f.content, Len(f.content) - WindowBytes + 1, Len(f.content))
       = SubSeq(g.content, Len(g.content) - WindowBytes + 1, Len(g.content))

ParsedFields == args[1][2].fields

ParsedRecord == returned.value[1][2]

\* _parse_dict has run on an episode entry that has a title
EpisodeParsed ==
    /\ lastOp = "_parse_dict"
    /\ "MovieName" \in DOMAIN ParsedFields

\* the segments of the title that the quotes delimit
Segments(title) == Split(title, "\"")

\* a number of the record is absent
NumberAbsent(record, key) == key \notin DOMAIN record \/ record[key] = NumberNone

\* a number of the record is as the claim wants it: the integer when the
\* field is present and numeric, absent otherwise
NumberAsClaimed(fields, field, record, key) ==
    IF field \in DOMAIN fields /\ int(fields[field]).raised = "none"
    THEN key \in DOMAIN record
         /\ record[key] = NumberInt(int(fields[field]).value)
    ELSE NumberAbsent(record, key)

\* C11: parsing an episode entry whose title has fewer than three segments
\* between quotes never aborts the entry and yields a record without series
\* title and without episode title, whose season and episode numbers are the
\* integers when the fields are present and numeric and are absent when the
\* fields are missing or not numeric.
C11_EpisodeFallbacks ==
    (EpisodeParsed /\ Len(Segments(ParsedFields["MovieName"])) < 3)
    => /\ outcome = "ok"
       /\ returned.kind = "dict"
       /\ Len(returned.value) = 1
       /\ "serie_title" \notin DOMAIN ParsedRecord
       /\ "episode_title" \notin DOMAIN ParsedRecord
       /\ NumberAsClaimed(ParsedFields, "SeriesSeason", ParsedRecord,
                          "season_number")
       /\ NumberAsClaimed(ParsedFields, "SeriesEpisode", ParsedRecord,
                          "episode_number")

====
